---- MODULE Spec2Model ----
(***************************************************************************)
(* Model of the incremental knowledge synchronisation of bissenbay/mi:     *)
(*   src/create_bot_knowledge.py   label filtering, reference scanning,    *)
(*                                 diffing, extraction, the sync cycles     *)
(*   src/srcopsmetrics/storage.py  KnowledgeStorage, local and Ceph backend *)
(*                                                                         *)
(* Python str values are sequences of one-character strings, so that       *)
(* split, replace, startswith, str() and int() are computed, not assumed.  *)
(* Python None is the empty option <<>>, a present value v is <<v>>.       *)
(***************************************************************************)
EXTENDS Integers, Sequences, FiniteSets, TLC

VARIABLES
    is_local,           \* KnowledgeStorage.is_local, the mode flag
    remote,             \* the project on the hosting service: number -> entity
    files,              \* local backend: unit -> file
    objects,            \* Ceph backend: unit -> object
    cycle,              \* locals of the analyse_* call that ran last
    labels,             \* argument of get_non_standalone_labels
    filtered,           \* its result, <<result>> once computed
    comments,           \* bodies of pull_request.get_issue_comments()
    issues_referenced,  \* result of get_referenced_issues, <<result>> once computed
    size,               \* outcome of get_labeled_size(labels), <<outcome>> once computed
    authored,           \* comments, each with user.login and body
    interactions,       \* result of get_interactions, <<result>> once computed
    loads               \* what a local and a remote store loaded, <<pair>> once loaded

vars == <<is_local, remote, files, objects, cycle,
          labels, filtered, comments, issues_referenced,
          size, authored, interactions, loads>>

syncVars == <<is_local, remote, files, objects, cycle>>
labelVars == <<labels, filtered>>
refVars == <<comments, issues_referenced>>
moreVars == <<size, authored, interactions, loads>>

-----------------------------------------------------------------------------
(* Bounds of the model.                                                    *)

MaxId == 2          \* entity numbers are 1..MaxId
MaxLabels == 3      \* label lists of 0..MaxLabels labels
MaxWords == 2       \* enumerated comment bodies hold 1..MaxWords tokens

-----------------------------------------------------------------------------
(* Python str operations.                                                  *)

None == <<>>
Some(v) == <<v>>

\* s.startswith(p)
StartsWith(s, p) == Len(s) >= Len(p) /\ SubSeq(s, 1, Len(p)) = p

\* s.replace(c, '') for a one-character c
Remove(s, c) == SelectSeq(s, LAMBDA x : x # c)

\* index of the first c in s, 0 when there is none
FirstIndex(s, c) ==
    IF \E i \in 1..Len(s) : s[i] = c
    THEN CHOOSE i \in 1..Len(s) : s[i] = c /\ \A j \in 1..(i - 1) : s[j] # c
    ELSE 0

\* s.split(c) for a one-character c: never empty, keeps empty pieces
RECURSIVE Split(_, _)
Split(s, c) ==
    LET i == FirstIndex(s, c)
    IN  IF i = 0 THEN <<s>>
        ELSE <<SubSeq(s, 1, i - 1)>> \o Split(SubSeq(s, i + 1, Len(s)), c)

\* c.join(words)
RECURSIVE Join(_, _)
Join(words, c) ==
    IF Len(words) = 0 THEN <<>>
    ELSE IF Len(words) = 1 THEN words[1]
    ELSE words[1] \o <<c>> \o Join(Tail(words), c)

Digits == <<"0", "1", "2", "3", "4", "5", "6", "7", "8", "9">>

\* str(n) for n >= 0
RECURSIVE str(_)
str(n) == IF n < 10 THEN <<Digits[n + 1]>>
          ELSE str(n \div 10) \o <<Digits[(n % 10) + 1]>>

DigitValue(d) == (CHOOSE i \in 1..10 : Digits[i] = d) - 1

\* int(s) for a string of decimal digits
RECURSIVE int(_)
int(s) == IF Len(s) = 1 THEN DigitValue(s[1])
          ELSE 10 * int(SubSeq(s, 1, Len(s) - 1)) + DigitValue(s[Len(s)])

\* all sequences over S of length lo..hi
SeqsOf(S, lo, hi) == UNION {[1..n -> S] : n \in lo..hi}

-----------------------------------------------------------------------------
(* Labels.                                                                 *)

L_bug == <<"b", "u", "g">>
L_size == <<"s", "i", "z", "e">>
L_sizeL == <<"s", "i", "z", "e", "/", "L">>
L_sizeXS == <<"s", "i", "z", "e", "/", "X", "S">>
L_kind == <<"k", "i", "n", "d", "/", "b", "u", "g">>

LabelNames == {L_bug, L_size, L_sizeL, L_sizeXS, L_kind}

STANDALONE_LABELS == {L_size}

get_non_standalone_labels_keepall(ls) == ls

\* [label for label in labels if label not in STANDALONE_LABELS]
get_non_standalone_labels(ls) ==
    SelectSeq(ls, LAMBDA label : label \notin STANDALONE_LABELS)

\* get_labeled_size raises IndexError: the first label starting with 'size'
\* has no '/' in it
get_labeled_size_raises(ls) ==
    \E i \in 1..Len(ls) :
        /\ StartsWith(ls[i], L_size)
        /\ \A j \in 1..(i - 1) : ~StartsWith(ls[j], L_size)
        /\ Len(Split(ls[i], "/")) < 2

\* for label in labels: if label.startswith('size'): return label.split('/')[1]
\* (falls off the end, returning None, when no label starts with 'size')
get_labeled_size(ls) ==
    IF \E i \in 1..Len(ls) : StartsWith(ls[i], L_size)
    THEN LET i == CHOOSE i \in 1..Len(ls) :
                     /\ StartsWith(ls[i], L_size)
                     /\ \A j \in 1..(i - 1) : ~StartsWith(ls[j], L_size)
         IN  Some(Split(ls[i], "/")[2])
    ELSE None

-----------------------------------------------------------------------------
(* Text-reference scanner.                                                 *)

K_close == <<"c", "l", "o", "s", "e">>
K_closes == <<"c", "l", "o", "s", "e", "s">>
K_closed == <<"c", "l", "o", "s", "e", "d">>
K_fix == <<"f", "i", "x">>
K_fixes == <<"f", "i", "x", "e", "s">>
K_fixed == <<"f", "i", "x", "e", "d">>
K_resolve == <<"r", "e", "s", "o", "l", "v", "e">>
K_resolves == <<"r", "e", "s", "o", "l", "v", "e", "s">>
K_resolved == <<"r", "e", "s", "o", "l", "v", "e", "d">>

ISSUE_KEYWORDS == {K_close, K_closes, K_closed, K_fix, K_fixes, K_fixed,
                   K_resolve, K_resolves, K_resolved}

T_https == <<"h", "t", "t", "p", "s">>

\* word.replace(':', '') in ISSUE_KEYWORDS
is_issue_keyword(word) == Remove(word, ":") \in ISSUE_KEYWORDS

scan_word_first_segment(message, idx, refs) ==
    IF ~is_issue_keyword(message[idx]) THEN refs
    ELSE IF idx + 1 > Len(message) THEN refs
    ELSE IF ~StartsWith(message[idx + 1], T_https) THEN refs
    ELSE Append(refs, Split(message[idx + 1], "/")[1])

scan_word_dedup(message, idx, refs) ==
    IF ~is_issue_keyword(message[idx]) THEN refs
    ELSE IF idx + 1 > Len(message) THEN refs
    ELSE IF ~StartsWith(message[idx + 1], T_https) THEN refs
    ELSE LET pieces == Split(message[idx + 1], "/")
             ref == pieces[Len(pieces)]
         IN  IF \E i \in 1..Len(refs) : refs[i] = ref THEN refs
             ELSE Append(refs, ref)

scan_word_no_assert(message, idx, refs) ==
    IF ~is_issue_keyword(message[idx]) THEN refs
    ELSE IF idx + 1 > Len(message) THEN refs
    ELSE LET pieces == Split(message[idx + 1], "/")
         IN  Append(refs, pieces[Len(pieces)])

\* the body of the inner loop for one (idx, word): the try block appends the
\* last '/'-piece of message[idx+1]; IndexError (no next word) and
\* AssertionError (next word does not start with 'https') are caught and
\* leave the list as it was
scan_word(message, idx, refs) ==
    IF ~is_issue_keyword(message[idx]) THEN refs
    ELSE IF idx + 1 > Len(message) THEN refs
    ELSE IF ~StartsWith(message[idx + 1], T_https) THEN refs
    ELSE LET pieces == Split(message[idx + 1], "/")
         IN  Append(refs, pieces[Len(pieces)])

\* for idx, word in enumerate(message), from idx on
RECURSIVE scan_message(_, _, _)
scan_message(message, idx, refs) ==
    IF idx > Len(message) THEN refs
    ELSE scan_message(message, idx + 1, scan_word(message, idx, refs))

\* for comment in pull_request.get_issue_comments(), from comment c on
RECURSIVE scan_comments(_, _, _)
scan_comments(bodies, c, refs) ==
    IF c > Len(bodies) THEN refs
    ELSE scan_comments(bodies, c + 1,
                       scan_message(Split(bodies[c], " "), 1, refs))

get_referenced_issues(bodies) == scan_comments(bodies, 1, <<>>)

-----------------------------------------------------------------------------
(* Inputs of the pure functions.                                           *)

W_this == <<"t", "h", "i", "s">>
W_closesC == <<"c", "l", "o", "s", "e", "s", ":">>
W_fi_x == <<"f", "i", ":", "x">>
W_soon == <<"s", "o", "o", "n">>
W_coming == <<"c", "o", "m", "i", "n", "g">>
W_and == <<"a", "n", "d">>
W_url42 == <<"h", "t", "t", "p", "s", ":", "/", "/", "x", "/", "y", "/", "4", "2">>
W_url7 == <<"h", "t", "t", "p", "s", ":", "/", "/", "x", "/", "y", "/", "7">>
W_url9 == <<"h", "t", "t", "p", "s", ":", "/", "/", "x", "/", "y", "/", "9">>

\* the three comment bodies of the specification's examples
B_closes42 == Join(<<W_this, W_closesC, W_url42>>, " ")
B_fixsoon == Join(<<K_fix, W_coming, W_soon>>, " ")
B_fixes7closes9 == Join(<<K_fixes, W_url7, W_and, K_closes, W_url9>>, " ")

\* a keyword without a URL, then a reference, in one body
B_fixsoon_closes42 == Join(<<K_fix, W_soon, W_closesC, W_url42>>, " ")

Words == {K_fix, W_closesC, W_fi_x, W_url42, W_soon}

Bodies == {Join(ws, " ") : ws \in SeqsOf(Words, 1, MaxWords)}
              \cup {B_closes42, B_fixsoon, B_fixes7closes9, B_fixsoon_closes42}

\* a pull request with no comment, one comment or two comments
CommentLists == {<<>>} \cup {<<a>> : a \in Bodies}
                       \cup {<<a, b>> : a \in Bodies, b \in Bodies}

LabelLists == SeqsOf(LabelNames, 0, MaxLabels)

-----------------------------------------------------------------------------
(* The hosting service: one project whose issues and pull requests share   *)
(* one numbering, as on GitHub, where get_issues lists pull requests too.  *)

Ids == 1..MaxId
Kinds == {"Issue", "PullRequest"}

\* label lists an entity may carry
EntityLabels == {<<L_bug>>, <<L_bug, L_sizeL>>}

NoEntity == [kind |-> "none", state |-> "none", labels |-> <<>>]
Entities == [kind : Kinds, state : {"open", "closed"}, labels : EntityLabels]

Range(f) == {f[x] : x \in DOMAIN f}

\* every ordering of the set S as a list
Orderings(S) == {o \in [1..Cardinality(S) -> S] : Range(o) = S}

\* issue.pull_request is not None
is_pull_request(n) == remote[n].kind = "PullRequest"

\* project.get_issues(state='closed'): closed issues and closed pull requests
get_issues_closed == {n \in Ids : remote[n].state = "closed"}

\* project.get_pulls(state='closed')
get_pulls_closed == {n \in Ids : remote[n].state = "closed" /\ is_pull_request(n)}

-----------------------------------------------------------------------------
(* Python dict and JSON.  A dict key is an int, [int |-> n], or a str,      *)
(* [str |-> s].  A JSON object has text keys only: json.dump writes an int  *)
(* key n as the text str(n), and json.load gives every key back as a str.   *)

IntKey(n) == [int |-> n]
StrKey(s) == [str |-> s]
is_int_key(k) == "int" \in DOMAIN k

EmptyDict == <<>>

dict_set_only(d, k, v) == [x \in {k} |-> v]

\* d[k] = v
dict_set(d, k, v) == [x \in (DOMAIN d) \cup {k} |-> IF x = k THEN v ELSE d[x]]

\* the text of a key in the JSON document
json_key(k) == IF is_int_key(k) THEN str(k.int) ELSE k.str

\* json.dump(data): text key -> value.  Two keys with the same text are both
\* written and the later one is what a reader gets; a dict here holds its str
\* keys (loaded) before its int keys (stored after loading).
json_dump(data) ==
    [s \in {json_key(k) : k \in DOMAIN data} |->
        IF \E k \in DOMAIN data : is_int_key(k) /\ json_key(k) = s
        THEN data[CHOOSE k \in DOMAIN data : is_int_key(k) /\ json_key(k) = s]
        ELSE data[StrKey(s)]]

\* json.load(f): every key of the object is a str
json_load(doc) == [k \in {StrKey(s) : s \in DOMAIN doc} |-> doc[k.str]]

\* int(id) for a key of the previous knowledge
key_number(k) == IF is_int_key(k) THEN k.int ELSE int(k.str)

-----------------------------------------------------------------------------
(* KnowledgeStorage.  A file is missing, of zero length, or holds the JSON *)
(* document {"results": ...}; an object of the Ceph store is missing or     *)
(* holds that document.  The module-level load_previous_knowledge and       *)
(* save_knowledge of create_bot_knowledge.py are the is_local branch.       *)

_FILENAME_ENTITY == [Issue |-> "issues", PullRequest |-> "pull_requests"]

\* one file, or object, per entity kind of the project
Paths == {_FILENAME_ENTITY[k] : k \in Kinds}

Missing == [st |-> "missing", results |-> <<>>]
ZeroLength == [st |-> "zero", results |-> <<>>]
Document(results) == [st |-> "json", results |-> results]

load_locally_no_size_check(f) ==
    IF f.st = "missing" THEN [raised |-> FALSE, results |-> None]
    ELSE IF f.st = "zero" THEN [raised |-> TRUE, results |-> None]
    ELSE [raised |-> FALSE, results |-> Some(json_load(f.results))]

\* if not file_path.exists() or os.path.getsize(file_path) == 0: return None
\* else json.load(f)["results"]
load_locally(f) ==
    IF f.st = "missing" \/ f.st = "zero"
    THEN [raised |-> FALSE, results |-> None]
    ELSE [raised |-> FALSE, results |-> Some(json_load(f.results))]

load_remotely_uncaught(o) ==
    IF o.st = "missing"
    THEN [raised |-> TRUE, results |-> None]
    ELSE [raised |-> FALSE, results |-> Some(json_load(o.results))]

\* retrieve_document(ceph_filename)["results"]; NotFoundError is caught and
\* the method then returns None
load_remotely(o) ==
    IF o.st = "missing"
    THEN [raised |-> FALSE, results |-> None]
    ELSE [raised |-> FALSE, results |-> Some(json_load(o.results))]

\* KnowledgeStorage.load_previous_knowledge for the unit u, of the store
\* whose is_local is local
load_previous_knowledge_of(local, u) ==
    LET file_path == _FILENAME_ENTITY[u]
        loaded == IF ~local THEN load_remotely(objects[file_path])
                  ELSE load_locally(files[file_path])
    IN  IF loaded.raised THEN [raised |-> TRUE, results |-> EmptyDict]
        ELSE IF loaded.results = None
             THEN [raised |-> FALSE, results |-> EmptyDict]
             ELSE [raised |-> FALSE, results |-> loaded.results[1]]

\* the store of the sync cycles loads
load_previous_knowledge(u) == load_previous_knowledge_of(is_local, u)

save_knowledge_both(local, u, data) ==
    LET file_path == _FILENAME_ENTITY[u]
    IN  [files |-> [files EXCEPT ![file_path] = Document(json_dump(data))],
         objects |-> [objects EXCEPT ![file_path] = Document(json_dump(data))]]

save_knowledge_one_path(local, u, data) ==
    IF ~local
    THEN [files |-> files,
          objects |-> [p \in Paths |-> Document(json_dump(data))]]
    ELSE [files |-> [p \in Paths |-> Document(json_dump(data))],
          objects |-> objects]

\* KnowledgeStorage.save_knowledge of the store whose is_local is local: the
\* two backends after the save
save_knowledge_of(local, u, data) ==
    LET file_path == _FILENAME_ENTITY[u]
    IN  IF ~local
        THEN [files |-> files,
              objects |-> [objects EXCEPT ![file_path] = Document(json_dump(data))]]
        ELSE [files |-> [files EXCEPT ![file_path] = Document(json_dump(data))],
              objects |-> objects]

\* the store of the sync cycles saves
save_knowledge(u, data) == save_knowledge_of(is_local, u, data)

-----------------------------------------------------------------------------
(* Extraction and the sync cycle.  Of a Record the model keeps the fields  *)
(* computed from the labels, the attribute of an entity that changes; the  *)
(* other fields are copied from the entity as they are.                    *)

\* the Record store_issue builds
issue_record(n) == [labels |-> get_non_standalone_labels(remote[n].labels)]

\* the Record store_pullrequest builds
pullrequest_record(n) ==
    [size |-> get_labeled_size(remote[n].labels),
     labels |-> get_non_standalone_labels(remote[n].labels)]

store_issue_no_skip(n, data) == dict_set(data, IntKey(n), issue_record(n))

\* store_issue(issue, data): the dict after the call
store_issue(n, data) ==
    IF is_pull_request(n) THEN data
    ELSE dict_set(data, IntKey(n), issue_record(n))

\* store_pullrequest(pull, results): the dict after the call
store_pullrequest(n, results) ==
    dict_set(results, StrKey(str(n)), pullrequest_record(n))

\* the extractor raises on its own: get_labeled_size's IndexError
extractor_raises(u, n) ==
    u = "PullRequest" /\ get_labeled_size_raises(remote[n].labels)

get_only_new_entities_all(old_data, new_data) == new_data

\* only_new_ids = set(new_knowledge_ids) - set(old_knowledge_ids)
\* return [x for x in new_data if x.number in only_new_ids]
get_only_new_entities(old_data, new_data) ==
    LET old_knowledge_ids == {key_number(k) : k \in DOMAIN old_data}
        only_new_ids == Range(new_data) \ old_knowledge_ids
    IN  SelectSeq(new_data, LAMBDA x : x \in only_new_ids)

nothing_new_never(new_entities) == FALSE

\* if len(new_issues) == 0: return
nothing_new(new_entities) == Len(new_entities) = 0

\* the loop over the new entities from the i-th on; the call to the remote
\* service fails at the fail-th entity (fail = 0: no failure), and an
\* exception ends the loop with the dict as it is
RECURSIVE extract(_, _, _, _, _)
extract(u, new_entities, i, data, fail) ==
    IF i > Len(new_entities) THEN [raised |-> FALSE, data |-> data]
    ELSE IF i = fail \/ extractor_raises(u, new_entities[i])
    THEN [raised |-> TRUE, data |-> data]
    ELSE extract(u, new_entities, i + 1,
                 IF u = "Issue" THEN store_issue(new_entities[i], data)
                 ELSE store_pullrequest(new_entities[i], data),
                 fail)

store_unchanged == [files |-> files, objects |-> objects]

save_after_loop_always(u, ex) == save_knowledge(u, ex.data)

\* the save that follows the loop: an exception raised in the loop leaves
\* the function before the save is reached
save_after_loop(u, ex) ==
    IF ex.raised THEN store_unchanged ELSE save_knowledge(u, ex.data)

Idle == [unit |-> "none", outcome |-> "none", listing |-> <<>>,
         prev |-> <<>>, new |-> <<>>, data |-> <<>>]

\* analyse_issues / analyse_pullrequests on the listing current, with the
\* remote failure fail: the locals at the end of the call and the store
analyse(u, current, fail) ==
    LET loaded == load_previous_knowledge(u)
        data == loaded.results
        new_entities == get_only_new_entities(data, current)
        ex == extract(u, new_entities, 1, data, fail)
    IN  IF loaded.raised
        THEN [cycle |-> [unit |-> u, outcome |-> "failed", listing |-> <<>>,
                         prev |-> data, new |-> <<>>, data |-> data],
              store |-> store_unchanged]
        ELSE IF nothing_new(new_entities)
        THEN [cycle |-> [unit |-> u, outcome |-> "skipped", listing |-> current,
                         prev |-> data, new |-> new_entities, data |-> data],
              store |-> store_unchanged]
        ELSE [cycle |-> [unit |-> u,
                         outcome |-> IF ex.raised THEN "failed" ELSE "saved",
                         listing |-> current, prev |-> data,
                         new |-> new_entities, data |-> ex.data],
              store |-> save_after_loop(u, ex)]

-----------------------------------------------------------------------------
(* The sync specification.                                                 *)

\* current_issues = [issue for issue in project.get_issues(state='closed')
\*                   if issue.pull_request is None]
analyse_issues ==
    \E current \in Orderings({n \in get_issues_closed : ~is_pull_request(n)}) :
    \E fail \in 0..MaxId :
        LET r == analyse("Issue", current, fail)
        IN  /\ fail <= Len(r.cycle.new)
            /\ cycle' = r.cycle
            /\ files' = r.store.files
            /\ objects' = r.store.objects
            /\ UNCHANGED <<is_local, remote, labelVars, refVars, moreVars>>

\* current_pulls = project.get_pulls(state='closed')
analyse_pullrequests ==
    \E current \in Orderings(get_pulls_closed) :
    \E fail \in 0..MaxId :
        LET r == analyse("PullRequest", current, fail)
        IN  /\ fail <= Len(r.cycle.new)
            /\ cycle' = r.cycle
            /\ files' = r.store.files
            /\ objects' = r.store.objects
            /\ UNCHANGED <<is_local, remote, labelVars, refVars, moreVars>>

\* the call returns to analyse_projects and its locals are gone
Return ==
    /\ cycle # Idle
    /\ cycle' = Idle
    /\ UNCHANGED <<is_local, remote, files, objects, labelVars, refVars, moreVars>>

\* an entity is closed on the service: a new one, or one that was reopened
RemoteClose ==
    /\ cycle = Idle
    /\ \E n \in Ids :
          \/ /\ remote[n] = NoEntity
             /\ \E k \in Kinds, ls \in EntityLabels :
                   remote' = [remote EXCEPT
                                 ![n] = [kind |-> k, state |-> "closed", labels |-> ls]]
          \/ /\ remote[n].state = "open"
             /\ remote' = [remote EXCEPT ![n].state = "closed"]
    /\ UNCHANGED <<is_local, files, objects, cycle, labelVars, refVars, moreVars>>

\* a closed entity is reopened: it leaves the closed listings
RemoteReopen ==
    /\ cycle = Idle
    /\ \E n \in Ids :
          /\ remote[n].state = "closed"
          /\ remote' = [remote EXCEPT ![n].state = "open"]
    /\ UNCHANGED <<is_local, files, objects, cycle, labelVars, refVars, moreVars>>

\* the labels of an entity are edited, closed or not
RemoteRelabel ==
    /\ cycle = Idle
    /\ \E n \in Ids, ls \in EntityLabels :
          /\ remote[n] # NoEntity
          /\ remote[n].labels # ls
          /\ remote' = [remote EXCEPT ![n].labels = ls]
    /\ UNCHANGED <<is_local, files, objects, cycle, labelVars, refVars, moreVars>>

\* nothing computed yet by the functions that are run on their own
MoreInit ==
    /\ size = <<>>
    /\ authored = <<>>
    /\ interactions = <<>>
    /\ loads = <<>>

Init ==
    /\ is_local \in BOOLEAN
    /\ remote = [n \in Ids |-> NoEntity]
    /\ files \in [Paths -> {Missing, ZeroLength}]
    /\ (~is_local => files = [p \in Paths |-> Missing])
    /\ objects = [p \in Paths |-> Missing]
    /\ cycle = Idle
    /\ labels = <<>>
    /\ filtered = None
    /\ comments = <<>>
    /\ issues_referenced = None
    /\ MoreInit

Next ==
    \/ analyse_issues
    \/ analyse_pullrequests
    \/ Return
    \/ RemoteClose
    \/ RemoteReopen
    \/ RemoteRelabel

Spec == Init /\ [][Next]_vars

-----------------------------------------------------------------------------
(* The label functions on every bounded label list.                        *)

FilterLabels ==
    /\ filtered = None
    /\ filtered' = Some(get_non_standalone_labels(labels))
    /\ UNCHANGED <<syncVars, labels, refVars, moreVars>>

InitLabels ==
    /\ is_local = TRUE
    /\ remote = [n \in Ids |-> NoEntity]
    /\ files = [p \in Paths |-> Missing]
    /\ objects = [p \in Paths |-> Missing]
    /\ cycle = Idle
    /\ labels \in LabelLists
    /\ filtered = None
    /\ comments = <<>>
    /\ issues_referenced = None
    /\ MoreInit

\* get_labeled_size(labels): whether it raised and, if not, what it returned
LabeledSize ==
    /\ size = None
    /\ size' = Some([raised |-> get_labeled_size_raises(labels),
                     value |-> IF get_labeled_size_raises(labels) THEN None
                               ELSE get_labeled_size(labels)])
    /\ UNCHANGED <<syncVars, labelVars, refVars, authored, interactions, loads>>

NextLabels == FilterLabels \/ LabeledSize

SpecLabels == InitLabels /\ [][NextLabels]_vars

-----------------------------------------------------------------------------
(* The reference scanner on every bounded list of comment bodies.          *)

ScanComments ==
    /\ issues_referenced = None
    /\ issues_referenced' = Some(get_referenced_issues(comments))
    /\ UNCHANGED <<syncVars, labelVars, comments, moreVars>>

InitRefs ==
    /\ is_local = TRUE
    /\ remote = [n \in Ids |-> NoEntity]
    /\ files = [p \in Paths |-> Missing]
    /\ objects = [p \in Paths |-> Missing]
    /\ cycle = Idle
    /\ labels = <<>>
    /\ filtered = None
    /\ comments \in CommentLists
    /\ issues_referenced = None
    /\ MoreInit

NextRefs == ScanComments

SpecRefs == InitRefs /\ [][NextRefs]_vars

-----------------------------------------------------------------------------
(* get_interactions on every bounded list of authored comments.            *)

W_hi == <<"h", "i">>
W_there == <<"t", "h", "e", "r", "e">>
W_ok == <<"o", "k">>

Logins == {"A", "B"}

\* bodies of one or more of these words, the empty word among them, joined by
\* single spaces: empty bodies, leading, trailing and doubled spaces occur
InteractionWords == {W_hi, W_there, W_ok, <<>>}
InteractionBodies == {Join(ws, " ") : ws \in SeqsOf(InteractionWords, 1, MaxWords)}
AuthoredComments == [login : Logins, body : InteractionBodies]

\* an issue with no comment, one comment or two comments
AuthoredLists == {<<>>} \cup {<<a>> : a \in AuthoredComments}
                        \cup {<<a, b>> : a \in AuthoredComments, b \in AuthoredComments}

\* the number of non-empty pieces between spaces, as body.split() counts
word_count_whitespace(body) ==
    Len(SelectSeq(Split(body, " "), LAMBDA w : w # <<>>))

\* len(comment.body.split(' '))
word_count(body) == Len(Split(body, " "))

\* for comment in comments: interactions[comment.user.login] += ..., from i on
RECURSIVE add_interactions(_, _, _)
add_interactions(cs, i, acc) ==
    IF i > Len(cs) THEN acc
    ELSE add_interactions(cs, i + 1,
             [acc EXCEPT ![cs[i].login] = @ + word_count(cs[i].body)])

\* interactions = {comment.user.login: 0 for comment in comments}, then the loop
get_interactions(cs) ==
    add_interactions(cs, 1, [l \in {cs[i].login : i \in 1..Len(cs)} |-> 0])

Interact ==
    /\ interactions = None
    /\ interactions' = Some(get_interactions(authored))
    /\ UNCHANGED <<syncVars, labelVars, refVars, size, authored, loads>>

InitInteractions ==
    /\ is_local = TRUE
    /\ remote = [n \in Ids |-> NoEntity]
    /\ files = [p \in Paths |-> Missing]
    /\ objects = [p \in Paths |-> Missing]
    /\ cycle = Idle
    /\ labels = <<>>
    /\ filtered = None
    /\ comments = <<>>
    /\ issues_referenced = None
    /\ size = None
    /\ authored \in AuthoredLists
    /\ interactions = None
    /\ loads = None

NextInteractions == Interact

SpecInteractions == InitInteractions /\ [][NextInteractions]_vars

-----------------------------------------------------------------------------
(* Two stores side by side: one local, one remote, given the same          *)
(* operations.  The local one works on files, the remote one on objects.   *)

\* Records to store
StoredRecords == {[labels |-> ls] : ls \in EntityLabels}

\* both stores load the unit u
StoresLoad ==
    /\ \E u \in Kinds :
          loads' = Some([unit |-> u,
                         local |-> load_previous_knowledge_of(TRUE, u),
                         remote |-> load_previous_knowledge_of(FALSE, u)])
    /\ UNCHANGED <<syncVars, labelVars, refVars, size, authored, interactions>>

\* both stores save, for the unit u, what they load with one Record put under
\* an int key or a str key, as store_issue and store_pullrequest do
StoresSave ==
    /\ \E u \in Kinds, n \in Ids, rec \in StoredRecords :
       \E k \in {IntKey(n), StrKey(str(n))} :
          LET data_local == dict_set(load_previous_knowledge_of(TRUE, u).results, k, rec)
              data_remote == dict_set(load_previous_knowledge_of(FALSE, u).results, k, rec)
          IN  /\ files' = save_knowledge_of(TRUE, u, data_local).files
              /\ objects' = save_knowledge_of(FALSE, u, data_remote).objects
    /\ loads' = None
    /\ UNCHANGED <<is_local, remote, cycle, labelVars, refVars,
                   size, authored, interactions>>

InitStores ==
    /\ is_local = TRUE
    /\ remote = [n \in Ids |-> NoEntity]
    /\ files \in [Paths -> {Missing, ZeroLength}]
    /\ objects = [p \in Paths |-> Missing]
    /\ cycle = Idle
    /\ labels = <<>>
    /\ filtered = None
    /\ comments = <<>>
    /\ issues_referenced = None
    /\ MoreInit

NextStores == StoresLoad \/ StoresSave

SpecStores == InitStores /\ [][NextStores]_vars

-----------------------------------------------------------------------------
(* Properties.                                                             *)

T_sizeSlash == <<"s", "i", "z", "e", "/">>

\* a label of the form 'size/<SIZE>'
is_size_class_label(label) == StartsWith(label, T_sizeSlash)

\* C1: the filtered label list holds no label of the form 'size/<SIZE>' and
\* keeps every other label, in its original order; ["bug", "size/L"] gives
\* ["bug"].
C1_FilterDropsSizeLabels ==
    filtered # None =>
        /\ filtered[1] = SelectSeq(labels, LAMBDA l : ~is_size_class_label(l))
        /\ (labels = <<L_bug, L_sizeL>> => filtered[1] = <<L_bug>>)

\* the document the selected backend holds for the unit u, given both stores
PersistedDoc(fs, os, u) ==
    IF is_local THEN fs[_FILENAME_ENTITY[u]].results
    ELSE os[_FILENAME_ENTITY[u]].results

\* C2: the Snapshot a sync cycle has passed to save is what load returns
\* afterwards: same keys, same key type, same Records.
C2_SaveLoadRoundTrip ==
    cycle.outcome = "saved" =>
        /\ ~load_previous_knowledge(cycle.unit).raised
        /\ load_previous_knowledge(cycle.unit).results = cycle.data

\* every entry of the document before is an entry of the document after
DocKept(before, after) ==
    \A s \in DOMAIN before : s \in DOMAIN after /\ after[s] = before[s]

\* C3: once a persisted Snapshot maps k to r, every later persisted Snapshot
\* of the same kind maps k to r: no step changes or removes a persisted
\* entry, whatever happens to the entity on the service.
C3_WriteOnce ==
    [][\A p \in Paths :
          /\ DocKept(files[p].results, files'[p].results)
          /\ DocKept(objects[p].results, objects'[p].results)]_vars

\* the Record the extractor of unit u builds of entity n as it is now
RecordNow(u, n) == IF u = "Issue" THEN issue_record(n) ELSE pullrequest_record(n)

\* C3 witness: a cycle has saved while the store holds, for an entity the
\* cycle did not extract, a Record the entity no longer matches.
C3_Witness ==
    /\ cycle.outcome = "saved"
    /\ \E n \in Ids :
          /\ str(n) \in DOMAIN PersistedDoc(files, objects, cycle.unit)
          /\ n \notin Range(cycle.new)
          /\ remote[n].state = "closed"
          /\ PersistedDoc(files, objects, cycle.unit)[str(n)] # RecordNow(cycle.unit, n)

\* the identifiers that are keys of the Snapshot d
KeyIds(d) == {n \in Ids : StrKey(str(n)) \in DOMAIN d \/ IntKey(n) \in DOMAIN d}

\* C4: the new entities are exactly the listed entities whose identifier is
\* in C \ P, in listing order; P empty gives the whole listing, C within P
\* gives none.
C4_DiffCorrect ==
    (cycle # Idle /\ cycle.outcome # "none") =>
        LET P == KeyIds(cycle.prev)
            C == Range(cycle.listing)
        IN  /\ Range(cycle.new) = C \ P
            /\ cycle.new = SelectSeq(cycle.listing, LAMBDA n : n \in C \ P)
            /\ (P = {} => cycle.new = cycle.listing)
            /\ (C \subseteq P => cycle.new = <<>>)

\* C4 witness: a listing that holds known and unknown identifiers.
C4_Witness ==
    /\ cycle # Idle
    /\ KeyIds(cycle.prev) \cap Range(cycle.listing) # {}
    /\ Range(cycle.listing) \ KeyIds(cycle.prev) # {}
    /\ Len(cycle.new) < Len(cycle.listing)

\* C5: a cycle that follows a completed cycle of the same kind, with the
\* listing unchanged in between, does not invoke save and leaves both
\* backends exactly as they were.
C5_Idempotent ==
    [][(/\ cycle.outcome \in {"saved", "skipped"}
        /\ cycle' # Idle
        /\ cycle'.unit = cycle.unit)
       => (/\ cycle'.outcome = "skipped"
           /\ files' = files
           /\ objects' = objects)]_vars

\* C5 witness: a cycle over a non-empty listing found nothing new, the store
\* holding the Records of an earlier cycle.
C5_Witness ==
    /\ cycle.outcome = "skipped"
    /\ cycle.listing # <<>>
    /\ DOMAIN PersistedDoc(files, objects, cycle.unit) # {}

\* C6: a cycle that fails during extraction leaves both backends as they
\* were, and the failure-free cycle that retries it persists the Record of
\* every entity that was new.
C6_NoPartialPersistence ==
    [][/\ (cycle' # cycle /\ cycle'.outcome = "failed")
            => (files' = files /\ objects' = objects)
       /\ (cycle.outcome = "failed" /\ cycle'.unit = cycle.unit
                                    /\ cycle'.outcome = "saved")
            => \A i \in 1..Len(cycle.new) :
                  LET n == cycle.new[i]
                      doc == PersistedDoc(files', objects', cycle.unit)
                  IN  str(n) \in DOMAIN doc /\ doc[str(n)] = RecordNow(cycle.unit, n)]_vars

\* C6 witness: a cycle failed after extracting a Record, which is in memory
\* and not in the store.
C6_Witness ==
    /\ cycle.outcome = "failed"
    /\ cycle.data # cycle.prev
    /\ \E n \in KeyIds(cycle.data) :
          str(n) \notin DOMAIN PersistedDoc(files, objects, cycle.unit)

\* C7: the Snapshot passed to save holds every key of the loaded Snapshot
\* with the Record loaded, and its other keys are those of the new entities.
C7_MergeMonotone ==
    cycle.outcome = "saved" =>
        /\ \A k \in DOMAIN cycle.prev :
              k \in DOMAIN cycle.data /\ cycle.data[k] = cycle.prev[k]
        /\ {key_number(k) : k \in (DOMAIN cycle.data) \ (DOMAIN cycle.prev)}
              = Range(cycle.new)

\* C7 witness: a cycle saved a Snapshot that extends a non-empty one.
C7_Witness ==
    /\ cycle.outcome = "saved"
    /\ DOMAIN cycle.prev # {}

\* C8: a cycle with no new entity extracts nothing and does not invoke save;
\* save is invoked, and a backend changed, only by a cycle with new entities.
C8_EmptyShortCircuit ==
    [][cycle' # Idle =>
          /\ (cycle'.new = <<>>) =>
                /\ cycle'.outcome = "skipped"
                /\ cycle'.data = cycle'.prev
                /\ files' = files
                /\ objects' = objects
          /\ (cycle'.outcome = "saved" \/ files' # files \/ objects' # objects)
                => cycle'.new # <<>>]_vars

\* C8 witness: a cycle found nothing new and the store was never written.
C8_Witness ==
    /\ cycle.outcome = "skipped"
    /\ files[_FILENAME_ENTITY[cycle.unit]].st # "json"
    /\ objects[_FILENAME_ENTITY[cycle.unit]].st # "json"

\* the selected backend holds nothing for the unit u: no file, a file of
\* zero length, or no object
NotFound(u) ==
    IF is_local THEN files[_FILENAME_ENTITY[u]].st \in {"missing", "zero"}
    ELSE objects[_FILENAME_ENTITY[u]].st = "missing"

\* the closed entities the cycle of unit u lists
Listed(u) ==
    IF u = "Issue" THEN {n \in get_issues_closed : ~is_pull_request(n)}
    ELSE get_pulls_closed

\* C9: when the file is missing or of zero length, or the object is not
\* found, load returns the empty Snapshot without raising, and the cycle
\* that follows takes every listed entity as new.
C9_NotFoundIsEmpty ==
    [][\A u \in Kinds :
          NotFound(u) =>
             /\ ~load_previous_knowledge(u).raised
             /\ load_previous_knowledge(u).results = EmptyDict
             /\ (cycle' # Idle /\ cycle'.unit = u) =>
                   /\ cycle'.prev = EmptyDict
                   /\ Range(cycle'.listing) = Listed(u)
                   /\ cycle'.new = cycle'.listing]_vars

\* C9 witness: a cycle that loaded a zero-length file took the listed
\* entities as new.
C9_Witness ==
    /\ is_local
    /\ cycle # Idle
    /\ files[_FILENAME_ENTITY[cycle.unit]] = ZeroLength
    /\ cycle.new # <<>>
    /\ cycle.new = cycle.listing

\* the text after the last '/' of t, all of t when it holds none
last_segment(t) ==
    LET slashes == {i \in 1..Len(t) : t[i] = "/"}
        k == IF slashes = {} THEN 0
             ELSE CHOOSE i \in slashes : \A j \in slashes : j <= i
    IN  SubSeq(t, k + 1, Len(t))

\* the references of one comment body: for each token that is a closing
\* keyword and is followed by a token starting with "https", in token order,
\* the last path segment of that following token
BodyReferences(body) ==
    LET tok == Split(body, " ")
        hits == SelectSeq([i \in 1..(Len(tok) - 1) |-> i],
                          LAMBDA i : /\ is_issue_keyword(tok[i])
                                     /\ StartsWith(tok[i + 1], T_https))
    IN  [j \in 1..Len(hits) |-> last_segment(tok[hits[j] + 1])]

RECURSIVE AllReferences(_)
AllReferences(bodies) ==
    IF bodies = <<>> THEN <<>>
    ELSE BodyReferences(Head(bodies)) \o AllReferences(Tail(bodies))

C11_SizeExtraction ==
    size # None =>
        /\ ~size[1].raised
        /\ IF \E i \in 1..Len(labels) : is_size_class_label(labels[i])
           THEN LET i == CHOOSE i \in 1..Len(labels) :
                            /\ is_size_class_label(labels[i])
                            /\ \A j \in 1..(i - 1) : ~is_size_class_label(labels[j])
                IN  size[1].value = Some(SubSeq(labels[i], Len(T_sizeSlash) + 1,
                                                Len(labels[i])))
           ELSE size[1].value = None

\* the whitespace-separated tokens of a body: the maximal runs of characters
\* that are not spaces
TokenCount(body) ==
    Cardinality({i \in 1..Len(body) :
                    body[i] # " " /\ (i = 1 \/ body[i - 1] = " ")})

RECURSIVE TokenSum(_, _)
TokenSum(cs, login) ==
    IF cs = <<>> THEN 0
    ELSE (IF Head(cs).login = login THEN TokenCount(Head(cs).body) ELSE 0)
         + TokenSum(Tail(cs), login)

Authors == {authored[i].login : i \in 1..Len(authored)}

\* C12: get_interactions maps each comment author to the sum, over the
\* author's comments, of the number of whitespace-separated tokens of the
\* body, and holds no other login; "hi there" by A and "ok" by B give
\* {A: 2, B: 1}.
C12_InteractionCounts ==
    interactions # None =>
        /\ DOMAIN interactions[1] = Authors
        /\ \A a \in Authors : interactions[1][a] = TokenSum(authored, a)
        /\ (authored = <<[login |-> "A", body |-> Join(<<W_hi, W_there>>, " ")],
                         [login |-> "B", body |-> W_ok]>>
               => interactions[1] = [l \in {"A", "B"} |-> IF l = "A" THEN 2 ELSE 1])

TokensOf(c) == Split(comments[c], " ")

\* token i of comment c is a closing keyword followed by a token that starts
\* with "https"
WellFormedAt(c, i) ==
    /\ is_issue_keyword(TokensOf(c)[i])
    /\ i + 1 <= Len(TokensOf(c))
    /\ StartsWith(TokensOf(c)[i + 1], T_https)

\* token i of comment c is a closing keyword that is the last token, or is
\* followed by a token that does not start with "https"
MalformedAt(c, i) ==
    /\ is_issue_keyword(TokensOf(c)[i])
    /\ ~WellFormedAt(c, i)

Positions == UNION {{<<c, i>> : i \in 1..Len(TokensOf(c))} : c \in 1..Len(comments)}
WellFormed == {p \in Positions : WellFormedAt(p[1], p[2])}
Malformed == {p \in Positions : MalformedAt(p[1], p[2])}
Before(p, q) == p[1] < q[1] \/ (p[1] = q[1] /\ p[2] < q[2])

\* C13: a closing keyword that is the last token of a comment, or is followed
\* by a token not starting with "https", records nothing, and every
\* well-formed reference is recorded, in order, wherever the malformed ones
\* stand: the list returned has one entry per well-formed reference.
C13_MalformedDiscarded ==
    issues_referenced # None =>
        /\ Len(issues_referenced[1]) = Cardinality(WellFormed)
        /\ \A p \in WellFormed :
              issues_referenced[1][1 + Cardinality({q \in WellFormed : Before(q, p)})]
                 = last_segment(TokensOf(p[1])[p[2] + 1])

\* C13 witness: a malformed reference stands before a well-formed one, in the
\* same comment or an earlier one, and the well-formed one is recorded.
C13_Witness ==
    /\ issues_referenced # None
    /\ \E m \in Malformed : \E p \in WellFormed :
          /\ Before(m, p)
          /\ m[1] < p[1]
    /\ \E m \in Malformed : \E p \in WellFormed :
          /\ Before(m, p)
          /\ m[1] = p[1]
    /\ Len(issues_referenced[1]) >= 1

\* a token that, with one trailing colon removed, is exactly a keyword
IsClosingKeyword(t) ==
    LET stripped == IF Len(t) > 0 /\ t[Len(t)] = ":"
                    THEN SubSeq(t, 1, Len(t) - 1) ELSE t
    IN  stripped \in ISSUE_KEYWORDS

\* the references of a body when the keywords are those of IsClosingKeyword
StrictBodyReferences(body) ==
    LET tok == Split(body, " ")
        hits == SelectSeq([i \in 1..(Len(tok) - 1) |-> i],
                          LAMBDA i : /\ IsClosingKeyword(tok[i])
                                     /\ StartsWith(tok[i + 1], T_https))
    IN  [j \in 1..Len(hits) |-> last_segment(tok[hits[j] + 1])]

RECURSIVE StrictReferences(_)
StrictReferences(bodies) ==
    IF bodies = <<>> THEN <<>>
    ELSE StrictBodyReferences(Head(bodies)) \o StrictReferences(Tail(bodies))

\* C14: a token counts as a closing keyword if and only if, with a trailing
\* colon removed, it is exactly one of the nine keywords; a token with a
\* colon elsewhere, such as "fi:x", is no keyword and produces no reference.
C14_TrailingColonOnly ==
    issues_referenced # None =>
        /\ \A p \in Positions :
              is_issue_keyword(TokensOf(p[1])[p[2]])
                 <=> IsClosingKeyword(TokensOf(p[1])[p[2]])
        /\ issues_referenced[1] = StrictReferences(comments)

\* C15: in every state of a sync cycle, and in the Snapshot passed to save,
\* every key is the string form of the entity's number, for issues and for
\* pull requests, and no identifier stands under two different keys.
C15_KeysAreStrings ==
    cycle # Idle =>
        /\ \A k \in DOMAIN cycle.data :
              /\ ~is_int_key(k)
              /\ \E n \in Ids : k = StrKey(str(n))
        /\ \A k1 \in DOMAIN cycle.data : \A k2 \in DOMAIN cycle.data :
              key_number(k1) = key_number(k2) => k1 = k2

C17_IssuesSkipPullRequests ==
    \A n \in Ids :
        is_pull_request(n) =>
            /\ store_issue(n, cycle.data) = cycle.data
            /\ store_issue(n, EmptyDict) = EmptyDict
            /\ str(n) \notin DOMAIN files[_FILENAME_ENTITY["Issue"]].results
            /\ str(n) \notin DOMAIN objects[_FILENAME_ENTITY["Issue"]].results

\* C17 witness: an issue cycle has saved while the closed listing of issues
\* held a pull request.
C17_Witness ==
    /\ cycle.unit = "Issue"
    /\ cycle.outcome = "saved"
    /\ \E n \in get_issues_closed : is_pull_request(n)

\* C18: a cycle of one kind, saved, skipped or failed, leaves the files and
\* objects of the other kind as they were; it starts from its own persisted
\* Snapshot and its own listing, and every entry of the Snapshot it saves is
\* an entry of that Snapshot or the Record of a new entity of that listing.
C18_UnitsIndependent ==
    [][cycle' # Idle =>
          LET u == cycle'.unit
          IN  /\ \A p \in Paths \ {_FILENAME_ENTITY[u]} :
                    files'[p] = files[p] /\ objects'[p] = objects[p]
              /\ cycle'.prev = json_load(PersistedDoc(files, objects, u))
              /\ Range(cycle'.listing) = Listed(u)
              /\ cycle'.outcome = "saved" =>
                    \A k \in DOMAIN cycle'.data :
                       \/ k \in DOMAIN cycle'.prev /\ cycle'.data[k] = cycle'.prev[k]
                       \/ /\ key_number(k) \in Range(cycle'.new)
                          /\ cycle'.data[k] = RecordNow(u, key_number(k))]_vars

\* C18 witness: a cycle has saved its Snapshot while the other kind has a
\* persisted Snapshot of its own, with other Records.
C18_Witness ==
    /\ cycle.outcome = "saved"
    /\ \E v \in Kinds \ {cycle.unit} :
          /\ DOMAIN PersistedDoc(files, objects, v) # {}
          /\ DOMAIN PersistedDoc(files, objects, v)
                # DOMAIN PersistedDoc(files, objects, cycle.unit)

====
